---- MODULE Spec2Model ----
(***************************************************************************)
(* Model of pyrevit.coreutils.appdata: the naming scheme of pyRevit data   *)
(* files, the listing and removal helpers, and the start-up sweep          *)
(* cleanup_appdata_folder.                                                 *)
(*                                                                         *)
(* A file name is a sequence of one-character strings, so that             *)
(* str.startswith, str.endswith, the "in" substring test and the regular   *)
(* expression of the sweep are computed character by character.            *)
(* A path op.join(folder, name) is the pair <<folder, name>>.              *)
(***************************************************************************)
EXTENDS Integers, Sequences, FiniteSets, TLC

VARIABLES
    fs,      \* fs[d]: the names of the files in appdata folder d
    procs,   \* procs[p]: "off", or EXEC_PARAMS.first_load of running host process p
    swept,   \* processes that have called cleanup_appdata_folder with first_load set
    dirty,   \* a file was created in the version folder since the last full sweep
    last     \* the last call: its arguments, result, and logged errors

vars == <<fs, procs, swept, dirty, last>>

(***************************************************************************)
(* Bounds and input domains                                                *)
(***************************************************************************)
\* at most this many files exist in the two folders together
MaxFiles == 2

\* HOST_APP.proc_id of the host processes that may run
ProcIds == {17, 2353}

tmp  == <<"t", "m", "p">>
keep == <<"k", "e", "e", "p">>

\* caller-supplied file ids: one without separator (a digit), one ending in "_0"
FileIds == {<<"5">>, <<"a", "_", "0">>}
\* the ids without the "_" separator
PlainIds == {id \in FileIds : \A i \in 1..Len(id) : id[i] # "_"}
FileExts == {tmp, keep}

\* files other programs may leave in the version folder:
\*   n.tmp                        no pyRevit name at all
\*   pyrevit_2016_ab_0_x.tmp      stamp 0
\*   pyrevit_2016_ab_17_x.xtmp    an extension that ends in the letters tmp
\*   pyrevit_2016_ab_xtmp         no "." before tmp
ForeignNames ==
    { <<"n", ".", "t", "m", "p">>,
      <<"p","y","r","e","v","i","t","_","2","0","1","6","_","a","b","_","0","_","x",".","t","m","p">>,
      <<"p","y","r","e","v","i","t","_","2","0","1","6","_","a","b","_","1","7","_","x",".","x","t","m","p">>,
      <<"p","y","r","e","v","i","t","_","2","0","1","6","_","a","b","_","x","t","m","p">> }

(***************************************************************************)
(* Strings                                                                 *)
(***************************************************************************)
Digit == <<"0", "1", "2", "3", "4", "5", "6", "7", "8", "9">>

IsDigit(c) == \E d \in 1..10 : Digit[d] = c

DigitValue(c) == (CHOOSE d \in 1..10 : Digit[d] = c) - 1

\* '{}'.format(n) of a non-negative integer
RECURSIVE str(_)
str(n) == IF n < 10 THEN <<Digit[n + 1]>>
          ELSE str(n \div 10) \o <<Digit[(n % 10) + 1]>>

\* int(s) of a string of decimal digits
RECURSIVE int(_)
int(s) == IF Len(s) = 0 THEN 0
          ELSE 10 * int(SubSeq(s, 1, Len(s) - 1)) + DigitValue(s[Len(s)])

startswith(s, prefix) ==
    /\ Len(prefix) <= Len(s)
    /\ SubSeq(s, 1, Len(prefix)) = prefix

endswith(s, suffix) ==
    /\ Len(suffix) <= Len(s)
    /\ SubSeq(s, Len(s) - Len(suffix) + 1, Len(s)) = suffix

\* sub in s
contains(s, sub) ==
    \E i \in 1..(Len(s) - Len(sub) + 1) : SubSeq(s, i, i + Len(sub) - 1) = sub

(***************************************************************************)
(* Folders and prefixes (imported from the pyrevit package)                *)
(***************************************************************************)
PYREVIT_APP_DIR == "PYREVIT_APP_DIR"
PYREVIT_VERSION_APP_DIR == "PYREVIT_VERSION_APP_DIR"
Folders == {PYREVIT_APP_DIR, PYREVIT_VERSION_APP_DIR}

AddonName == <<"p", "y", "r", "e", "v", "i", "t">>
HostVersion == <<"2", "0", "1", "6">>
UserName == <<"a", "b">>

\* e.g. pyrevit_eirannejad
PYREVIT_FILE_PREFIX_UNIVERSAL == AddonName \o <<"_">> \o UserName
\* e.g. pyrevit_2016_eirannejad
PYREVIT_FILE_PREFIX == AddonName \o <<"_">> \o HostVersion \o <<"_">> \o UserName
\* e.g. pyrevit_2016_eirannejad_2353
PYREVIT_FILE_PREFIX_STAMPED(proc_id) == PYREVIT_FILE_PREFIX \o <<"_">> \o str(proc_id)

TEMP_FILE_EXT == tmp

(***************************************************************************)
(* The file system and its failures                                        *)
(***************************************************************************)
Max(S) == CHOOSE x \in S : \A y \in S : y <= x
Min(S) == CHOOSE x \in S : \A y \in S : x <= y

\* the orders in which the system may list the names S of a folder
Orders(S) == {o \in [1..Cardinality(S) -> S] : \A i, j \in 1..Cardinality(S) : o[i] = o[j] => i = j}

\* os.listdir(folder): listdir, the names of the folder in the order the system
\* gives them, or OSError when the folder is missing or cannot be read
os_listdir(listdir, oserror) ==
    [raised |-> oserror, names |-> IF oserror THEN <<>> ELSE listdir]

\* os.remove(path): fails when the file is missing, or when the system refuses
\* (locked, permission denied)
os_remove(fsys, path, refused) ==
    IF path[2] \in fsys[path[1]] /\ ~refused
    THEN [raised |-> FALSE, fs |-> [fsys EXCEPT ![path[1]] = @ \ {path[2]}]]
    ELSE [raised |-> TRUE, fs |-> fsys]

(***************************************************************************)
(* _remove_app_file: os.remove inside try/except Exception; the error is   *)
(* logged and the call returns normally                                    *)
(***************************************************************************)
\* without the try/except: the error of os.remove leaves the function
remove_propagating(fsys, file_path, refused) ==
    LET r == os_remove(fsys, file_path, refused)
    IN  [fs |-> r.fs, raised |-> IF r.raised THEN "os.remove" ELSE "none", logged |-> {}]

\* raised: the call whose exception leaves the function ("none": it returns);
\* logged: the paths of the logger.error lines
_remove_app_file(fsys, file_path, refused) ==
    LET r == os_remove(fsys, file_path, refused)
    IN  [fs |-> r.fs, raised |-> "none",
         logged |-> IF r.raised THEN {file_path} ELSE {}]

(***************************************************************************)
(* _list_app_files                                                         *)
(***************************************************************************)
_list_app_files(prefix, file_ext, universal, listdir, oserror) ==
    LET appdata_folder == IF universal THEN PYREVIT_APP_DIR ELSE PYREVIT_VERSION_APP_DIR
        listing == os_listdir(listdir, oserror)
    IN  [raised |-> IF listing.raised THEN "os.listdir" ELSE "none",
         ret |-> { <<appdata_folder, listing.names[i]>> :
                     i \in {k \in 1..Len(listing.names) :
                              /\ startswith(listing.names[k], prefix)
                              /\ endswith(listing.names[k], file_ext)} }]

(***************************************************************************)
(* _get_app_file and the three public name builders.  proc_id is the       *)
(* HOST_APP.proc_id of the calling process, which fixes its stamped prefix *)
(***************************************************************************)
_get_app_file(proc_id, file_id, file_ext, filename_only, stamped, universal) ==
    LET appdata_folder == IF ~stamped /\ universal THEN PYREVIT_APP_DIR
                          ELSE PYREVIT_VERSION_APP_DIR
        file_prefix == IF stamped THEN PYREVIT_FILE_PREFIX_STAMPED(proc_id)
                       ELSE IF universal THEN PYREVIT_FILE_PREFIX_UNIVERSAL
                       ELSE PYREVIT_FILE_PREFIX
        full_filename == file_prefix \o <<"_">> \o file_id \o <<".">> \o file_ext
    IN  IF filename_only THEN full_filename ELSE <<appdata_folder, full_filename>>

get_universal_data_file(proc_id, file_id, file_ext, name_only) ==
    _get_app_file(proc_id, file_id, file_ext, name_only, FALSE, TRUE)

get_data_file(proc_id, file_id, file_ext, name_only) ==
    _get_app_file(proc_id, file_id, file_ext, name_only, FALSE, FALSE)

get_instance_data_file(proc_id, file_id, file_ext, name_only) ==
    _get_app_file(proc_id, file_id, file_ext, name_only, TRUE, FALSE)

is_pyrevit_data_file(file_name) == contains(file_name, PYREVIT_FILE_PREFIX)

list_data_files(file_ext, universal, listdir, oserror) ==
    _list_app_files(PYREVIT_FILE_PREFIX, file_ext, universal, listdir, oserror)

list_session_data_files(proc_id, file_ext, listdir, oserror) ==
    _list_app_files(PYREVIT_FILE_PREFIX_STAMPED(proc_id), file_ext, FALSE, listdir, oserror)

garbage_data_file(fsys, file_path, refused) == _remove_app_file(fsys, file_path, refused)

(***************************************************************************)
(* The finder of the sweep: re.compile(r'(.+)_(.+)_(.+)_(\d+).+').findall  *)
(*                                                                         *)
(* A match is fixed by its start b, the three "_" the pattern's literal    *)
(* underscores land on (i1 < i2 < i3, each group between them non-empty),  *)
(* and the end of the digits, which the final .+ must follow.  The         *)
(* backtracking matcher takes the leftmost start, then the longest first   *)
(* group, then the longest second, the longest third, the longest digits.  *)
(* The final .+ runs to the end of the name, so there is at most one match.*)
(***************************************************************************)
Underscores(s) == {i \in 1..Len(s) : s[i] = "_"}

\* the last position of the digits \d+ takes from position i, the final .+
\* keeping at least one character; 0 when s[i] is no digit or nothing follows
DigitsEnd(s, i) ==
    LET J == {j \in i..(Len(s) - 1) : \A k \in i..j : IsDigit(s[k])}
    IN  IF J = {} THEN 0 ELSE Max(J)

SeparatorChoices(s) ==
    {t \in Underscores(s) \X Underscores(s) \X Underscores(s) :
        /\ t[1] + 1 < t[2]
        /\ t[2] + 1 < t[3]
        /\ DigitsEnd(s, t[3] + 1) # 0}

findall(s) ==
    LET T  == SeparatorChoices(s)
        B  == {b \in 1..Len(s) : \E t \in T : b < t[1]}
        b  == Min(B)
        i1 == Max({t[1] : t \in {u \in T : b < u[1]}})
        i2 == Max({t[2] : t \in {u \in T : u[1] = i1}})
        i3 == Max({t[3] : t \in {u \in T : u[1] = i1 /\ u[2] = i2}})
    IN  IF B = {} THEN <<>>
        ELSE << <<SubSeq(s, b, i1 - 1), SubSeq(s, i1 + 1, i2 - 1),
                  SubSeq(s, i2 + 1, i3 - 1), SubSeq(s, i3 + 1, DigitsEnd(s, i3 + 1))>> >>

\* the condition under which the sweep removes an entry
is_swept(appdata_file) ==
    LET file_name_pieces == findall(appdata_file)
    IN  /\ file_name_pieces # <<>>
        /\ Len(file_name_pieces[1]) = 4
        /\ int(file_name_pieces[1][4]) > 0
        /\ endswith(appdata_file, TEMP_FILE_EXT)

Scopes == {"Universal", "VersionShared", "Instance"}

\* the builder of a scope
get_file(scope, proc_id, file_id, file_ext, name_only) ==
    CASE scope = "Universal" -> get_universal_data_file(proc_id, file_id, file_ext, name_only)
      [] scope = "VersionShared" -> get_data_file(proc_id, file_id, file_ext, name_only)
      [] scope = "Instance" -> get_instance_data_file(proc_id, file_id, file_ext, name_only)

\* every path a caller can have obtained, and the foreign files
Paths ==
    { get_file(sc, p, id, ext, FALSE) : sc \in Scopes, p \in ProcIds, id \in FileIds, ext \in FileExts }
    \cup { <<PYREVIT_VERSION_APP_DIR, n>> : n \in ForeignNames }

\* the names is_swept selects, among all the names a folder can hold here;
\* the loop tests membership in it instead of matching each name again
SweptNames == {path[2] : path \in {q \in Paths : is_swept(q[2])}}

(***************************************************************************)
(* cleanup_appdata_folder: the loop over os.listdir(PYREVIT_VERSION_APP_DIR)*)
(* An exception leaving _remove_app_file would end the loop.               *)
(***************************************************************************)
RECURSIVE sweep(_, _, _, _, _)
sweep(fsys, names, k, refused, logged) ==
    IF k > Len(names) THEN [fs |-> fsys, raised |-> "none", logged |-> logged]
    ELSE IF names[k] \in SweptNames
    THEN LET r == _remove_app_file(fsys, <<PYREVIT_VERSION_APP_DIR, names[k]>>,
                                   names[k] \in refused)
         IN  IF r.raised # "none"
             THEN [fs |-> r.fs, raised |-> r.raised, logged |-> logged \cup r.logged]
             ELSE sweep(r.fs, names, k + 1, refused, logged \cup r.logged)
    ELSE sweep(fsys, names, k + 1, refused, logged)

\* without the test of EXEC_PARAMS.first_load
cleanup_ungated(fsys, first_load, listdir, oserror, refused) ==
    LET listing == os_listdir(listdir, oserror)
    IN  IF listing.raised THEN [fs |-> fsys, raised |-> "os.listdir", logged |-> {}]
        ELSE sweep(fsys, listing.names, 1, refused, {})

\* a loop that ends after its first removal
RECURSIVE sweep_first_only(_, _, _, _, _)
sweep_first_only(fsys, names, k, refused, logged) ==
    IF k > Len(names) THEN [fs |-> fsys, raised |-> "none", logged |-> logged]
    ELSE IF names[k] \in SweptNames
    THEN _remove_app_file(fsys, <<PYREVIT_VERSION_APP_DIR, names[k]>>, names[k] \in refused)
    ELSE sweep_first_only(fsys, names, k + 1, refused, logged)

cleanup_stops_after_first(fsys, first_load, listdir, oserror, refused) ==
    IF first_load
    THEN LET listing == os_listdir(listdir, oserror)
         IN  IF listing.raised THEN [fs |-> fsys, raised |-> "os.listdir", logged |-> {}]
             ELSE sweep_first_only(fsys, listing.names, 1, refused, {})
    ELSE [fs |-> fsys, raised |-> "none", logged |-> {}]

cleanup_appdata_folder(fsys, first_load, listdir, oserror, refused) ==
    IF first_load
    THEN LET listing == os_listdir(listdir, oserror)
         IN  IF listing.raised THEN [fs |-> fsys, raised |-> "os.listdir", logged |-> {}]
             ELSE sweep(fsys, listing.names, 1, refused, {})
    ELSE [fs |-> fsys, raised |-> "none", logged |-> {}]

(***************************************************************************)
(* State                                                                   *)
(***************************************************************************)
\* EXEC_PARAMS.first_load of a running process
first_load(p) == procs[p] = "first_load"

Running == {p \in ProcIds : procs[p] # "off"}

FileCount == Cardinality(fs[PYREVIT_APP_DIR]) + Cardinality(fs[PYREVIT_VERSION_APP_DIR])

\* the paths of the files that are in before and not in after
Removed(before, after) == UNION { { <<d, n>> : n \in before[d] \ after[d] } : d \in Folders }

\* a path at which no file is ever created
MissingPath == <<PYREVIT_VERSION_APP_DIR, <<"g", "o", "n", "e">>>>

\* the record of a call: the process and its first_load, the argument, what it
\* returned, the call whose exception left it ("none": it returned), the paths
\* of the errors it logged, the paths it removed; and for the sweep, whether the
\* process had swept before and whether a file had been created since the last
\* full sweep
Call(op, p) ==
    [op |-> op, pid |-> p, first_load |-> IF p \in ProcIds THEN first_load(p) ELSE FALSE,
     arg |-> <<>>, ret |-> {}, raised |-> "none", logged |-> {}, removed |-> {},
     swept_before |-> FALSE, dirty_before |-> FALSE]

Init ==
    /\ fs = [d \in Folders |-> {}]
    /\ procs = [p \in ProcIds |-> "off"]
    /\ swept = {}
    /\ dirty = FALSE
    /\ last = [op |-> "none", pid |-> 0, first_load |-> FALSE,
               arg |-> <<>>, ret |-> {}, raised |-> "none", logged |-> {}, removed |-> {},
               swept_before |-> FALSE, dirty_before |-> FALSE]

(***************************************************************************)
(* The host: processes start (first load), reload, and end                 *)
(***************************************************************************)
Start(p) ==
    /\ procs[p] = "off"
    /\ procs' = [procs EXCEPT ![p] = "first_load"]
    /\ last' = Call("start", 0)
    /\ UNCHANGED <<fs, swept, dirty>>

Reload(p) ==
    /\ procs[p] = "first_load"
    /\ procs' = [procs EXCEPT ![p] = "reloaded"]
    /\ swept' = swept \ {p}
    /\ last' = Call("reload", 0)
    /\ UNCHANGED <<fs, dirty>>

End(p) ==
    /\ procs[p] # "off"
    /\ procs' = [procs EXCEPT ![p] = "off"]
    /\ swept' = swept \ {p}
    /\ last' = Call("end", 0)
    /\ UNCHANGED <<fs, dirty>>

(***************************************************************************)
(* Callers create files at the paths the module computes; other programs   *)
(* leave files in the version folder                                       *)
(***************************************************************************)
WriteFile(p, scope, file_id, file_ext) ==
    LET path == get_file(scope, p, file_id, file_ext, FALSE)
    IN  /\ p \in Running
        /\ path[2] \notin fs[path[1]]
        /\ FileCount < MaxFiles
        /\ fs' = [fs EXCEPT ![path[1]] = @ \cup {path[2]}]
        /\ dirty' = (dirty \/ path[1] = PYREVIT_VERSION_APP_DIR)
        /\ last' = Call("write", 0)
        /\ UNCHANGED <<procs, swept>>

CreateForeign(name) ==
    /\ name \notin fs[PYREVIT_VERSION_APP_DIR]
    /\ FileCount < MaxFiles
    /\ fs' = [fs EXCEPT ![PYREVIT_VERSION_APP_DIR] = @ \cup {name}]
    /\ dirty' = TRUE
    /\ last' = Call("foreign", 0)
    /\ UNCHANGED <<procs, swept>>

(***************************************************************************)
(* The calls of the module                                                 *)
(***************************************************************************)
IsPyrevitDataFile(p, scope, file_id, file_ext) ==
    LET name == get_file(scope, p, file_id, file_ext, TRUE)
    IN  /\ p \in Running
        /\ last' = [Call("is_pyrevit_data_file", 0) EXCEPT
                      !.arg = name, !.ret = is_pyrevit_data_file(name)]
        /\ UNCHANGED <<fs, procs, swept, dirty>>

ListDataFiles(p, file_ext, universal, listdir, oserror) ==
    LET r == list_data_files(file_ext, universal, listdir, oserror)
    IN  /\ p \in Running
        /\ last' = [Call("list_data_files", 0) EXCEPT
                      !.arg = <<file_ext, universal>>, !.ret = r.ret, !.raised = r.raised]
        /\ UNCHANGED <<fs, procs, swept, dirty>>

ListSessionDataFiles(p, file_ext, listdir, oserror) ==
    LET r == list_session_data_files(p, file_ext, listdir, oserror)
    IN  /\ p \in Running
        /\ last' = [Call("list_session_data_files", p) EXCEPT
                      !.arg = <<file_ext, FALSE>>, !.ret = r.ret, !.raised = r.raised]
        /\ UNCHANGED <<fs, procs, swept, dirty>>

GarbageDataFile(p, file_path, refused) ==
    LET r == garbage_data_file(fs, file_path, refused)
    IN  /\ p \in Running
        /\ fs' = r.fs
        /\ last' = [Call("garbage_data_file", 0) EXCEPT
                      !.arg = file_path, !.raised = r.raised, !.logged = r.logged,
                      !.removed = Removed(fs, r.fs)]
        /\ UNCHANGED <<procs, swept, dirty>>

CleanupAppdataFolder(p, listdir, oserror, refused) ==
    LET r == cleanup_appdata_folder(fs, first_load(p), listdir, oserror, refused)
    IN  /\ p \in Running
        /\ fs' = r.fs
        /\ swept' = IF first_load(p) THEN swept \cup {p} ELSE swept
        /\ dirty' = IF first_load(p) /\ r.raised = "none" /\ r.logged = {} THEN FALSE ELSE dirty
        /\ last' = [Call("cleanup_appdata_folder", p) EXCEPT
                      !.raised = r.raised, !.logged = r.logged,
                      !.removed = Removed(fs, r.fs),
                      !.swept_before = (p \in swept), !.dirty_before = dirty]
        /\ UNCHANGED procs

\* what os.listdir can give for a folder: any order of its names, and nothing
\* when it raises
Listings(folder, oserror) == IF oserror THEN {<<>>} ELSE Orders(fs[folder])

\* the files in the folders, and the missing path
GarbagePaths == UNION { { <<d, n>> : n \in fs[d] } : d \in Folders } \cup {MissingPath}

Host ==
    \/ \E p \in ProcIds : Start(p)
    \/ \E p \in ProcIds : End(p)
    \/ \E p \in ProcIds, scope \in Scopes, file_id \in FileIds, file_ext \in FileExts :
          WriteFile(p, scope, file_id, file_ext)
    \/ \E name \in ForeignNames : CreateForeign(name)

\* the sweep and the removals, with the host around them
Next ==
    \/ Host
    \/ \E p \in ProcIds : Reload(p)
    \/ \E p \in ProcIds, file_path \in GarbagePaths, refused \in BOOLEAN :
          GarbageDataFile(p, file_path, refused)
    \/ \E p \in ProcIds, oserror \in BOOLEAN :
          \E listdir \in Listings(PYREVIT_VERSION_APP_DIR, oserror),
             refused \in SUBSET (IF oserror THEN {} ELSE fs[PYREVIT_VERSION_APP_DIR] \cap SweptNames) :
             CleanupAppdataFolder(p, listdir, oserror, refused)

Spec == Init /\ [][Next]_vars

\* the queries, which change no file, with the host around them
NextQuery ==
    \/ Host
    \/ \E p \in ProcIds, scope \in Scopes, file_id \in FileIds, file_ext \in FileExts :
          IsPyrevitDataFile(p, scope, file_id, file_ext)
    \/ \E p \in ProcIds, file_ext \in FileExts, universal \in BOOLEAN, oserror \in BOOLEAN :
          \E listdir \in Listings(IF universal THEN PYREVIT_APP_DIR ELSE PYREVIT_VERSION_APP_DIR, oserror) :
             ListDataFiles(p, file_ext, universal, listdir, oserror)
    \/ \E p \in ProcIds, file_ext \in FileExts, oserror \in BOOLEAN :
          \E listdir \in Listings(PYREVIT_VERSION_APP_DIR, oserror) :
             ListSessionDataFiles(p, file_ext, listdir, oserror)

SpecQuery == Init /\ [][NextQuery]_vars

(***************************************************************************)
(* Properties                                                              *)
(***************************************************************************)
\* op.exists(path)
Exists(fsys, path) == path[2] \in fsys[path[1]]

IsCleanup(call) == call.op = "cleanup_appdata_folder"

\* the text after the last "." of a name (empty when it has none)
Extension(n) ==
    LET D == {i \in 1..Len(n) : n[i] = "."}
    IN  IF D = {} THEN <<>> ELSE SubSeq(n, Max(D) + 1, Len(n))

\* the shape {app-tag}_{version-tag}_{owner-tag}_{stamp} followed by a suffix,
\* with a numeric stamp greater than 0, read off the first three separators
HasOrphanShape(n) ==
    LET U  == Underscores(n)
        u1 == Min(U)
        u2 == Min(U \ {u1})
        u3 == Min(U \ {u1, u2})
        e  == DigitsEnd(n, u3 + 1)
    IN  /\ Cardinality(U) >= 3
        /\ 1 < u1 /\ u1 + 1 < u2 /\ u2 + 1 < u3
        /\ e # 0
        /\ int(SubSeq(n, u3 + 1, e)) > 0

\* C1: a file at a path of get_data_file or get_universal_data_file, whatever
\* the id and the extension, is still there after any cleanup_appdata_folder.
C1_SharedFilesSurvive ==
    [][IsCleanup(last') =>
         \A p \in ProcIds, file_id \in FileIds, file_ext \in FileExts :
            \A path \in { get_data_file(p, file_id, file_ext, FALSE),
                          get_universal_data_file(p, file_id, file_ext, FALSE) } :
               Exists(fs, path) => Exists(fs', path)]_vars

\* C2: a file at a path of get_instance_data_file, whatever the id and the
\* extension, left by a process that has ended, is gone after a
\* cleanup_appdata_folder with first_load set, unless its deletion failed.
C2_InstanceFilesSwept ==
    [][IsCleanup(last') /\ last'.first_load /\ last'.raised = "none" =>
         \A p \in ProcIds \ Running, file_id \in FileIds, file_ext \in FileExts :
            LET path == get_instance_data_file(p, file_id, file_ext, FALSE)
            IN  Exists(fs, path) /\ path \notin last'.logged => ~Exists(fs', path)]_vars

\* C3: after a cleanup_appdata_folder with first_load set in which nothing
\* failed, an entry of the version folder is removed if and only if it has the
\* 4-part shape with a stamp greater than 0 and its extension is tmp.
C3_SweepSelectionExact ==
    [][IsCleanup(last') /\ last'.first_load /\ last'.raised = "none" /\ last'.logged = {} =>
         \A n \in fs[PYREVIT_VERSION_APP_DIR] :
            (n \notin fs'[PYREVIT_VERSION_APP_DIR])
               <=> (HasOrphanShape(n) /\ Extension(n) = TEMP_FILE_EXT)]_vars

\* C4 as claimed: once a process has swept, every later cleanup_appdata_folder
\* of that process, its first_load unchanged, removes no file.
C4_SweepsOnce ==
    IsCleanup(last) /\ last.swept_before => last.removed = {}

\* C4 as amended: once a process has swept, a later cleanup_appdata_folder of
\* that process, its first_load unchanged, removes no file provided no file was
\* created in the version folder since the last sweep in which nothing failed.
C4_SweepIdempotent ==
    IsCleanup(last) /\ last.swept_before /\ ~last.dirty_before => last.removed = {}

\* a process sweeps again, nothing created since the last full sweep, files
\* still in the version folder
C4_Witness ==
    /\ IsCleanup(last) /\ last.first_load /\ last.swept_before /\ ~last.dirty_before
    /\ last.raised = "none"
    /\ fs[PYREVIT_VERSION_APP_DIR] # {}

\* C5: a tmp instance file of a running process (a sibling of the sweeping
\* process, or the sweeping process itself) is never removed by the sweep.
C5_LiveInstanceFilesKept ==
    [][IsCleanup(last') =>
         \A q \in Running, file_id \in FileIds :
            LET path == get_instance_data_file(q, file_id, TEMP_FILE_EXT, FALSE)
            IN  Exists(fs, path) => Exists(fs', path)]_vars

\* C6: list_data_files, list_session_data_files and cleanup_appdata_folder
\* return normally whatever the file system does, the listings then being empty.
C6_ListingNeverRaises ==
    last.op \in {"list_data_files", "list_session_data_files", "cleanup_appdata_folder"}
       => last.raised = "none"

\* C7: list_data_files and list_session_data_files return exactly the entries of
\* the folder that start with the prefix of the scope and end with "." and the
\* extension, each joined to the folder.
C7_ListingExact ==
    last.op \in {"list_data_files", "list_session_data_files"} /\ last.raised = "none" =>
       LET file_ext == last.arg[1]
           universal == last.arg[2]
           folder == IF universal THEN PYREVIT_APP_DIR ELSE PYREVIT_VERSION_APP_DIR
           prefix == IF last.op = "list_session_data_files"
                     THEN PYREVIT_FILE_PREFIX_STAMPED(last.pid)
                     ELSE IF universal THEN PYREVIT_FILE_PREFIX_UNIVERSAL
                     ELSE PYREVIT_FILE_PREFIX
       IN  last.ret = { <<folder, n>> :
                          n \in {m \in fs[folder] : /\ startswith(m, prefix)
                                                    /\ endswith(m, <<".">> \o file_ext)} }

\* C8: the name built for any scope from an id without separator and an
\* extension is a pyRevit data file for is_pyrevit_data_file.
C8_BuiltNamesOwned ==
    (/\ last.op = "is_pyrevit_data_file"
     /\ \E sc \in Scopes, p \in ProcIds, file_id \in PlainIds, file_ext \in FileExts :
           last.arg = get_file(sc, p, file_id, file_ext, TRUE))
    => (last.ret = TRUE)

\* C9: cleanup_appdata_folder called with first_load false leaves both folders
\* as they are.
C9_GatedByFirstLoad ==
    [][IsCleanup(last') /\ ~last'.first_load => fs' = fs]_vars

\* a call with first_load false has returned and a file the sweep selects is there
C9_Witness ==
    /\ IsCleanup(last) /\ ~last.first_load
    /\ fs[PYREVIT_VERSION_APP_DIR] \cap SweptNames # {}

\* C10: garbage_data_file returns normally for any path and changes nothing when
\* the removal fails; a cleanup_appdata_folder that has its listing returns
\* normally whichever removals fail, and removes every selected entry whose
\* removal did not fail.
C10_BestEffortDeletion ==
    [][/\ last'.op = "garbage_data_file" =>
             /\ last'.raised = "none"
             /\ last'.logged # {} => fs' = fs
       /\ IsCleanup(last') /\ last'.first_load /\ last'.raised # "os.listdir" =>
             /\ last'.raised = "none"
             /\ fs'[PYREVIT_APP_DIR] = fs[PYREVIT_APP_DIR]
             /\ fs'[PYREVIT_VERSION_APP_DIR] =
                   fs[PYREVIT_VERSION_APP_DIR] \
                      {n \in fs[PYREVIT_VERSION_APP_DIR] :
                          n \in SweptNames /\ <<PYREVIT_VERSION_APP_DIR, n>> \notin last'.logged}]_vars

\* a sweep in which one removal failed and another entry was removed
C10_Witness ==
    /\ IsCleanup(last) /\ last.raised = "none"
    /\ last.logged # {}
    /\ last.removed # {}

====
